---- MODULE Spec2Model ----
(***************************************************************************)
(* Model of the PartSelect agent: the MCPClient orchestration pipeline     *)
(* (src/lily_client/client.py), its data records (models.py) and the read  *)
(* gate of the MySQL tool server (src/mcp_servers/mysql/mysql_server.py).  *)
(*                                                                         *)
(* Text that the code inspects (SQL statements) is a sequence of one-      *)
(* character strings, so strip/upper/startswith/"in" are computed as the   *)
(* code computes them.  Message contents are sequences of tokens whose     *)
(* first token carries the "Context:" prefix when the code writes one.     *)
(***************************************************************************)
EXTENDS Integers, Sequences, FiniteSets, TLC

VARIABLES
    \* ---- MCPClient fields
    sessions,          \* self.sessions: the server names that are connected
    message_history,   \* self.message_history
    \* ---- one process_query / regenerate_response call (a turn)
    pc,                \* where the turn is suspended
    query,             \* the query of the turn
    analysis,          \* process_query: analysis
    all_results,       \* retrieve_information: all_results
    batch_count,       \* retrieve_information: batch_count
    batch_tool_call,   \* retrieve_information: the batch being executed
    tool_results,      \* process_query: tool_results
    attempt,           \* process_query: attempt
    response,          \* process_query: response (last generated answer)
    ret,               \* value returned by the last finished operation
    lastOp,            \* the operation that ran last
    turns,             \* number of turns started (bounded by the specs)
    preHistory,        \* history when the current operation was called
    calls,             \* per-turn call counts: planner/tool/generator/validator
    batchSizes,        \* sizes of the batches executed in this turn
    genLog,            \* tool-result lists handed to the generator in this turn
    planLog,           \* the result lists handed to the planner calls of this turn
    toolLog,           \* the tool calls executed in this turn, the backends' outcomes
                       \* and the should_continue of the batch of each call
    lastVerdict,       \* the validator's last verdict in this turn
    answers,           \* the answers generated in this turn, in order
    fault,             \* the stage whose call raised in this turn, or "none"
    \* ---- one execute_batch_tools call (the tool gateway)
    gpc,               \* "idle" | "running" | "returned" | "raised"
    gbatch,            \* the tool calls of the batch
    tasks,             \* per tool call: its execute_tool task
    gathered,          \* what asyncio.gather returned
    backendCalls,      \* calls issued through self.sessions[...].call_tool
    dbExecuted,        \* statements the MySQL server passed to cursor.execute
    \* ---- the web application: requests served on the one shared client
    parked             \* locals of the process_query calls suspended at an await
                       \* while the event loop serves another request

vars == <<sessions, message_history, pc, query, analysis, all_results, batch_count,
          batch_tool_call, tool_results, attempt, response, ret, lastOp, turns,
          preHistory, calls, batchSizes, genLog, toolLog, planLog, lastVerdict, answers,
          fault, gpc, gbatch, tasks, gathered, backendCalls, dbExecuted, parked>>

turnVars == <<message_history, pc, query, analysis, all_results, batch_count,
              batch_tool_call, tool_results, attempt, response, ret, lastOp,
              turns, preHistory, calls, batchSizes, genLog, toolLog, planLog,
              lastVerdict, answers, fault>>

gatewayVars == <<gpc, gbatch, tasks, gathered, backendCalls, dbExecuted>>

webVars == <<parked>>

----------------------------------------------------------------------------
(* Bounds of the model *)

\* longest SQL statement, in words of the vocabulary
MaxWords == 3
\* largest batch the planner oracle returns
MaxBatchSize == 4
\* largest batch given to execute_batch_tools on its own
MaxGatherSize == 3
\* turns in one conversation
MaxTurns == 3
\* requests the web application receives
MaxRequests == 2
\* requests suspended while another one is served
MaxParked == 1

----------------------------------------------------------------------------
(* Text *)

Space == " "

UpperChar(c) ==
    CASE c = "a" -> "A" [] c = "b" -> "B" [] c = "c" -> "C" [] c = "d" -> "D"
      [] c = "e" -> "E" [] c = "f" -> "F" [] c = "g" -> "G" [] c = "h" -> "H"
      [] c = "i" -> "I" [] c = "j" -> "J" [] c = "k" -> "K" [] c = "l" -> "L"
      [] c = "m" -> "M" [] c = "n" -> "N" [] c = "o" -> "O" [] c = "p" -> "P"
      [] c = "q" -> "Q" [] c = "r" -> "R" [] c = "s" -> "S" [] c = "t" -> "T"
      [] c = "u" -> "U" [] c = "v" -> "V" [] c = "w" -> "W" [] c = "x" -> "X"
      [] c = "y" -> "Y" [] c = "z" -> "Z" [] OTHER -> c

\* str.upper()
Upper(s) == [i \in 1..Len(s) |-> UpperChar(s[i])]

RECURSIVE LStrip(_)
LStrip(s) == IF s # <<>> /\ Head(s) = Space THEN LStrip(Tail(s)) ELSE s

RECURSIVE RStrip(_)
RStrip(s) ==
    IF s # <<>> /\ s[Len(s)] = Space THEN RStrip(SubSeq(s, 1, Len(s) - 1)) ELSE s

\* str.strip()
Strip(s) == RStrip(LStrip(s))

\* str.startswith(p)
StartsWith(s, p) == Len(s) >= Len(p) /\ SubSeq(s, 1, Len(p)) = p

\* p in s
Contains(s, p) ==
    \E i \in 1..(Len(s) - Len(p) + 1) : SubSeq(s, i, i + Len(p) - 1) = p

\* str.split(): the whitespace-separated words
RECURSIVE SplitWords(_)
SplitWords(s) ==
    LET t == LStrip(s)
        n == IF \E i \in 1..Len(t) : t[i] = Space
             THEN (CHOOSE i \in 1..Len(t) :
                      t[i] = Space /\ \A j \in 1..(i - 1) : t[j] # Space) - 1
             ELSE Len(t)
    IN IF t = <<>> THEN <<>>
       ELSE <<SubSeq(t, 1, n)>> \o SplitWords(SubSeq(t, n + 1, Len(t)))

kwSELECT == <<"S", "E", "L", "E", "C", "T">>
kwLIMIT == <<"L", "I", "M", "I", "T">>
LimitSuffix == <<" ", "L", "I", "M", "I", "T", " ", "1", "0">>

\* words SQL statements are built from: keywords in either case, a column
\* whose name holds the letters "limit", a number, a statement separator
Vocabulary ==
    { kwSELECT, <<"s", "e", "l", "e", "c", "t">>, <<"x">>,
      <<"m", "l", "i", "m", "i", "t">>, kwLIMIT, <<"5">>,
      <<"D", "R", "O", "P">>, <<"S", "H", "O", "W">>, <<";">> }

RECURSIVE JoinWords(_)
JoinWords(ws) ==
    IF ws = <<>> THEN <<>>
    ELSE IF Len(ws) = 1 THEN ws[1]
    ELSE ws[1] \o <<Space>> \o JoinWords(Tail(ws))

\* the statements given to execute_read_query, and one with outer blanks
Statements ==
    { JoinWords(ws) : ws \in UNION { [1..k -> Vocabulary] : k \in 0..MaxWords } }
      \cup { <<Space>> \o kwSELECT \o <<Space, "x", Space>> }

SearchTexts == { <<"l", "e", "a", "k">> }

ToolNames == { "searchRAG", "execute_read_query", "delete_rows" }

\* models.ToolCall values given to execute_tool
ToolCalls ==
    { [tool_name |-> "execute_read_query", table_name |-> "parts", query |-> q] :
          q \in Statements }
      \cup { [tool_name |-> n, table_name |-> "repairs", query |-> q] :
                 n \in { "searchRAG", "delete_rows" }, q \in SearchTexts }

----------------------------------------------------------------------------
(* The MySQL tool server: mysql_server.py *)

ALLOWED_QUERY_TYPES ==
    { kwSELECT, <<"S", "H", "O", "W">>,
      <<"D", "E", "S", "C", "R", "I", "B", "E">>, <<"D", "E", "S", "C">>,
      <<"E", "X", "P", "L", "A", "I", "N">> }

ReadOnlyErrorText ==
    <<"Only read-only queries are allowed. Allowed commands: SELECT, SHOW, DESCRIBE, DESC, EXPLAIN">>
RowsText == <<"columns and rows">>
PassagesText == <<"passages">>
ServerFaultText == <<"Error executing tool execute_read_query: list index out of range">>

\* is_read_only_query; split()[0] of a blank statement raises IndexError
is_read_only_query(q) == Upper(SplitWords(Strip(q))[1]) \in ALLOWED_QUERY_TYPES

\* faulty variant, to test that the properties tell it apart: the server
\* appends the limit to every SELECT, whether it has one or not
ServerAlwaysAppends(q) ==
    IF StartsWith(Upper(Strip(q)), kwSELECT) THEN q \o LimitSuffix ELSE q

\* the statement handed to cursor.execute (lines 95-103)
ServerStatement(q) ==
    IF StartsWith(Upper(Strip(q)), kwSELECT) /\ ~Contains(Upper(q), kwLIMIT)
    THEN IF \E i \in 1..Len(q) : q[i] = ";"
         THEN LET i == CHOOSE k \in 1..Len(q) :
                          q[k] = ";" /\ \A j \in 1..(k - 1) : q[j] # ";"
              IN SubSeq(q, 1, i - 1) \o LimitSuffix \o SubSeq(q, i, Len(q))
         ELSE q \o LimitSuffix
    ELSE q

\* execute_read_query of the server: the text it answers with and the
\* statements it executed on the database
execute_read_query(q) ==
    IF SplitWords(Strip(q)) = <<>>
    THEN [text |-> ServerFaultText, executed |-> <<>>]
    ELSE IF ~is_read_only_query(q)
    THEN [text |-> ReadOnlyErrorText, executed |-> <<>>]
    ELSE [text |-> RowsText, executed |-> <<ServerStatement(q)>>]

----------------------------------------------------------------------------
(* The tool gateway: MCPClient.execute_tool and execute_batch_tools *)

ToolResult(name, args, text) ==
    [tool_name |-> name, tool_args |-> args, result |-> text]

NoResult == ToolResult("", <<>>, <<>>)

\* outcomes of a stretch of code: it returns a ToolResult, raises, or is
\* suspended at a call_tool await
Return(v) == [state |-> "done", exc |-> "", msg |-> "", value |-> v]
Raise(e, m) == [state |-> "raised", exc |-> e, msg |-> m, value |-> NoResult]
Await(call) == [state |-> "awaiting", exc |-> "", msg |-> "", value |-> call]

\* what a backend does with a call: answers, answers with empty content,
\* raises a transport fault, or stays silent past the deadline
BackendOutcomes == { "ok", "malformed", "fault", "timeout" }

\* lines 262-264: the LIMIT rewrite of the client
ClientLimitRewrite(q) ==
    IF StartsWith(Upper(Strip(q)), kwSELECT) /\ ~Contains(Upper(q), kwLIMIT)
    THEN q \o LimitSuffix
    ELSE q

RagArgs(tc) == [table |-> tc.table_name, query |-> tc.query]
MysqlArgs(tc) == [query |-> ClientLimitRewrite(tc.query)]
FallbackArgs(tc) == [table |-> tc.table_name, query |-> tc.query]

\* the body of execute_tool up to its await (lines 235-245, 259-274, 294-301)
ToolBodyStart(tc, sess) ==
    IF tc.tool_name = "searchRAG"
    THEN IF "rag" \in sess
         THEN Await([session |-> "rag", tool |-> "searchRAG", args |-> RagArgs(tc)])
         ELSE Raise("KeyError", "'rag'")
    ELSE IF tc.tool_name = "execute_read_query"
    THEN IF "mysql" \in sess
         THEN Await([session |-> "mysql", tool |-> "execute_read_query",
                     args |-> MysqlArgs(tc)])
         ELSE Raise("KeyError", "'mysql'")
    ELSE Return(ToolResult(tc.tool_name, FallbackArgs(tc),
                           <<"Unknown tool:", tc.tool_name>>))

\* the text of an answered call
ReplyText(call) ==
    IF call.session = "mysql" THEN execute_read_query(call.args.query).text
    ELSE PassagesText

\* the body of execute_tool from its await on (lines 244-250, 273-279)
ToolBodyResume(call, outcome) ==
    CASE outcome = "timeout" -> Raise("TimeoutError", "")
      [] outcome = "fault" -> Raise("McpError", "Connection closed")
      [] outcome = "malformed" -> Raise("IndexError", "list index out of range")
      [] OTHER -> Return(ToolResult(call.tool, call.args, ReplyText(call)))

\* faulty variant, to test that the properties tell it apart: no handler
\* of the deadline, a timeout reaches the outer handler
InnerExceptAbsent(tc, out) == out

\* except asyncio.TimeoutError (lines 251-257, 280-286)
InnerExcept(tc, out) ==
    IF out.state = "raised" /\ out.exc = "TimeoutError"
    THEN IF tc.tool_name = "searchRAG"
         THEN Return(ToolResult("searchRAG", RagArgs(tc),
                  <<"Timeout searching", tc.table_name,
                    "The search took too long to complete.">>))
         ELSE Return(ToolResult("execute_read_query", MysqlArgs(tc),
                  <<"Timeout executing query. The database operation took too long to complete.">>))
    ELSE out

\* faulty variant, to test that the properties tell it apart: no outer handler, a raised exception leaves execute_tool
OuterExceptAbsent(tc, out) == out

\* except Exception (lines 303-310)
OuterExcept(tc, out) ==
    IF out.state = "raised"
    THEN Return(ToolResult(tc.tool_name, FallbackArgs(tc),
                           <<"Error executing tool", tc.tool_name, out.msg>>))
    ELSE out

\* execute_tool until it is suspended or finished
ExecuteToolStart(tc, sess) == OuterExcept(tc, InnerExcept(tc, ToolBodyStart(tc, sess)))

\* execute_tool from the backend's outcome to its return
ExecuteToolResume(tc, call, outcome) ==
    OuterExcept(tc, InnerExcept(tc, ToolBodyResume(call, outcome)))

\* execute_tool as a whole, the backend's outcome given
execute_tool(tc, sess, outcome) ==
    LET s == ExecuteToolStart(tc, sess)
    IN IF s.state = "awaiting" THEN ExecuteToolResume(tc, s.value, outcome) ELSE s

\* a task of asyncio.gather: "pending" (created, not yet run), "awaiting"
\* (suspended in call_tool), "done" or "raised"; order is its place in the
\* order of completion, 0 while it is not complete
\* dispatched: it issued a call_tool; outcome: what the backend did with it
NewTask ==
    [pc |-> "pending", dispatched |-> FALSE, call |-> <<>>, outcome |-> "none",
     result |-> NoResult, order |-> 0]

Completed(ts) == { i \in 1..Len(ts) : ts[i].pc \in { "done", "raised" } }

\* the event loop runs the tasks gather created in creation order, each up
\* to its first await, before it handles any answer of a backend
CanStart(ts, i) == ts[i].pc = "pending" /\ \A j \in 1..(i - 1) : ts[j].pc # "pending"
CanResume(ts, i) == ts[i].pc = "awaiting" /\ \A j \in 1..Len(ts) : ts[j].pc # "pending"

\* faulty variant, to test that the properties tell it apart: results in the order the calls completed
GatherInCompletionOrder(ts) ==
    [k \in 1..Len(ts) |-> ts[CHOOSE i \in 1..Len(ts) : ts[i].order = k].result]

\* what asyncio.gather returns (line 320): the results in the order of the
\* awaitables it was given
GatherResults(ts) == [i \in 1..Len(ts) |-> ts[i].result]

\* calls execute_batch_tools is given on its own: tool calls of each kind
PoolCall(i) ==
    CASE i % 4 = 1 -> [tool_name |-> "searchRAG", table_name |-> "repairs",
                       query |-> <<"l", "e", "a", "k">>]
      [] i % 4 = 2 -> [tool_name |-> "execute_read_query", table_name |-> "parts",
                       query |-> kwSELECT \o <<Space, "x">>]
      [] i % 4 = 3 -> [tool_name |-> "searchRAG", table_name |-> "blogs",
                       query |-> <<"i", "c", "e">>]
      [] OTHER -> [tool_name |-> "delete_rows", table_name |-> "parts",
                   query |-> <<"x">>]

GatewayInputs ==
    { <<tc>> : tc \in ToolCalls }
      \cup { [i \in 1..n |-> PoolCall(i)] : n \in 0..MaxGatherSize }

\* what startup (web/app.py) leaves in self.sessions: the second connection is
\* not attempted when the first one fails
StartupOutcomes == { {}, { "rag" }, { "rag", "mysql" } }

----------------------------------------------------------------------------
(* State after MCPClient() *)

IntroText == <<"Welcome to PartSelect! I'm your appliance parts assistant">>
ApologyText ==
    <<"I apologize, but I can only assist with questions about refrigerator or dishwasher appliance parts and repairs. Could you please rephrase your question?">>

Message(role, content) == [role |-> role, content |-> content]

\* get_introduction_message as the first message
IntroMessage == Message("assistant", IntroText)

\* no analysis yet, or the analysis call raised
NoAnalysis == [ok |-> FALSE, is_in_scope |-> FALSE, needs_retrieval |-> FALSE]
\* no batch yet, or decide_batch_tools returned None
NoBatch == [parsed |-> FALSE, tool_calls |-> <<>>, should_continue |-> FALSE]
NoCalls == [planner |-> 0, tool |-> 0, generator |-> 0, validator |-> 0]
\* the validator call raised, or no verdict yet
NoVerdict ==
    [ok |-> FALSE, is_appropriate |-> FALSE, stays_in_scope |-> FALSE,
     hallucination |-> FALSE, feedback |-> [present |-> FALSE, text |-> <<>>]]

Init ==
    /\ sessions = {}
    /\ message_history = <<IntroMessage>>
    /\ pc = "new"
    /\ query = <<>>
    /\ analysis = NoAnalysis
    /\ answers = <<>>
    /\ fault = "none"
    /\ all_results = <<>>
    /\ batch_count = 0
    /\ batch_tool_call = NoBatch
    /\ tool_results = <<>>
    /\ attempt = 0
    /\ response = <<>>
    /\ ret = <<>>
    /\ lastOp = "init"
    /\ turns = 0
    /\ preHistory = <<>>
    /\ calls = NoCalls
    /\ batchSizes = <<>>
    /\ genLog = <<>>
    /\ toolLog = <<>>
    /\ planLog = <<>>
    /\ lastVerdict = NoVerdict
    /\ gpc = "idle"
    /\ gbatch = <<>>
    /\ tasks = <<>>
    /\ gathered = <<>>
    /\ backendCalls = <<>>
    /\ dbExecuted = <<>>
    /\ parked = <<>>

\* startup of the web application: connect_to_server for "rag", then "mysql"
Startup(connected) ==
    /\ pc = "new"
    /\ sessions' = connected
    /\ pc' = "idle"
    /\ lastOp' = "startup"
    /\ UNCHANGED <<message_history, query, analysis, all_results, batch_count,
                   batch_tool_call, tool_results, attempt, response, ret, turns,
                   preHistory, calls, batchSizes, genLog, toolLog, planLog, lastVerdict,
                   answers, fault>>
    /\ UNCHANGED gatewayVars
    /\ UNCHANGED webVars

----------------------------------------------------------------------------
(* execute_batch_tools, task by task *)

\* execute_batch_tools(batch): gather creates one task per tool call
ExecuteBatchTools(b) ==
    /\ pc = "idle"
    /\ gpc = "idle"
    /\ gpc' = "running"
    /\ gbatch' = b
    /\ tasks' = [i \in 1..Len(b) |-> NewTask]
    /\ UNCHANGED <<gathered, backendCalls, dbExecuted, sessions>>
    /\ UNCHANGED turnVars
    /\ UNCHANGED webVars

\* a task runs execute_tool up to its await, or to its end
TaskStart(i) ==
    /\ gpc = "running"
    /\ i \in 1..Len(tasks)
    /\ CanStart(tasks, i)
    /\ LET r == ExecuteToolStart(gbatch[i], sessions)
           k == Cardinality(Completed(tasks)) + 1
       IN IF r.state = "awaiting"
          THEN /\ tasks' = [tasks EXCEPT ![i].pc = "awaiting", ![i].call = r.value,
                                         ![i].dispatched = TRUE]
               /\ backendCalls' = Append(backendCalls, r.value)
          ELSE /\ tasks' = [tasks EXCEPT ![i].pc = r.state, ![i].result = r.value,
                                         ![i].order = k]
               /\ UNCHANGED backendCalls
    /\ UNCHANGED <<gpc, gbatch, gathered, dbExecuted, sessions>>
    /\ UNCHANGED turnVars
    /\ UNCHANGED webVars

\* the backend's outcome reaches a suspended task, which runs to its end
TaskResume(i, outcome) ==
    /\ gpc = "running"
    /\ i \in 1..Len(tasks)
    /\ CanResume(tasks, i)
    /\ LET call == tasks[i].call
           r == ExecuteToolResume(gbatch[i], call, outcome)
           k == Cardinality(Completed(tasks)) + 1
       IN /\ tasks' = [tasks EXCEPT ![i].pc = r.state, ![i].result = r.value,
                                    ![i].order = k, ![i].outcome = outcome]
          /\ dbExecuted' =
                IF outcome = "ok" /\ call.session = "mysql"
                THEN dbExecuted \o execute_read_query(call.args.query).executed
                ELSE dbExecuted
    /\ UNCHANGED <<gpc, gbatch, gathered, backendCalls, sessions>>
    /\ UNCHANGED turnVars
    /\ UNCHANGED webVars

\* await asyncio.gather(*tasks): raises as soon as a task has raised, returns
\* once every task is done
Gather ==
    /\ gpc = "running"
    /\ \/ \E i \in 1..Len(tasks) : tasks[i].pc = "raised"
       \/ \A i \in 1..Len(tasks) : tasks[i].pc = "done"
    /\ IF \E i \in 1..Len(tasks) : tasks[i].pc = "raised"
       THEN gpc' = "raised" /\ UNCHANGED gathered
       ELSE gpc' = "returned" /\ gathered' = GatherResults(tasks)
    /\ UNCHANGED <<gbatch, tasks, backendCalls, dbExecuted, sessions>>
    /\ UNCHANGED turnVars
    /\ UNCHANGED webVars

NextGateway ==
    \/ \E s \in StartupOutcomes : Startup(s)
    \/ gpc = "idle" /\ pc = "idle" /\ \E b \in GatewayInputs : ExecuteBatchTools(b)
    \/ \E i \in 1..MaxGatherSize : TaskStart(i)
    \/ \E i \in 1..MaxGatherSize, o \in BackendOutcomes : TaskResume(i, o)
    \/ Gather

\* the tool gateway on its own: one execute_batch_tools call
SpecGateway == Init /\ [][NextGateway]_vars

----------------------------------------------------------------------------
(* Claims about the tool gateway (SpecGateway) *)

KnownTool(tc) == tc.tool_name \in { "searchRAG", "execute_read_query" }
SessionOf(tc) == IF tc.tool_name = "searchRAG" THEN "rag" ELSE "mysql"
IsErrorText(tc, text) ==
    Len(text) = 3 /\ text[1] = "Error executing tool" /\ text[2] = tc.tool_name
      /\ text[3] # ""
IsTimeoutText(tc, text) ==
    IF tc.tool_name = "searchRAG"
    THEN text = <<"Timeout searching", tc.table_name,
                  "The search took too long to complete.">>
    ELSE text = <<"Timeout executing query. The database operation took too long to complete.">>

\* C4: execute_batch_tools starts every call of the batch before it handles
\* any backend answer, returns only when every call is done, and returns as
\* many results as calls, the i-th result being the one of the i-th call,
\* whatever the order of completion and whatever the backends did
C4_GatherOrdered ==
    /\ gpc # "raised"
    /\ \A i \in 1..Len(tasks), j \in 1..Len(tasks) :
          tasks[j].outcome # "none" => tasks[i].pc # "pending"
    /\ gpc = "returned" =>
          /\ Len(gathered) = Len(gbatch)
          /\ \A i \in 1..Len(gbatch) :
                /\ tasks[i].pc = "done"
                /\ gathered[i] = tasks[i].result
                /\ gathered[i].tool_name = gbatch[i].tool_name
                /\ gathered[i].tool_args.query = gbatch[i].query
                     \/ gathered[i].tool_args.query = gbatch[i].query \o LimitSuffix
                /\ gbatch[i].tool_name # "execute_read_query" =>
                      gathered[i].tool_args.table = gbatch[i].table_name

\* a batch of three returned although the last call completed first and a
\* call timed out and another faulted
C4_Witness ==
    /\ gpc = "returned"
    /\ Len(gbatch) = 3
    /\ tasks[3].order = 1
    /\ tasks[1].order = 3
    /\ tasks[1].outcome = "timeout"
    /\ tasks[2].outcome = "fault"

\* C5: execute_tool never raises; an unknown tool name, a missing session, a
\* backend fault, a malformed answer and an expired deadline each end in a
\* ToolResult whose text describes the failure, and an unknown tool name
\* issues no backend call
C5_ExecuteToolNeverRaises ==
    /\ gpc # "raised"
    /\ Len(backendCalls) = Cardinality({ i \in 1..Len(tasks) : tasks[i].dispatched })
    /\ \A k \in 1..Len(backendCalls) :
          backendCalls[k].tool \in { "searchRAG", "execute_read_query" }
    /\ \A i \in 1..Len(tasks) :
          LET tc == gbatch[i]
              t == tasks[i]
          IN /\ t.pc # "raised"
             /\ ~KnownTool(tc) => ~t.dispatched
             /\ t.pc = "done" =>
                   /\ t.result.tool_name = tc.tool_name
                   /\ ~KnownTool(tc) =>
                         t.result.result = <<"Unknown tool:", tc.tool_name>>
                   /\ KnownTool(tc) /\ SessionOf(tc) \notin sessions =>
                         ~t.dispatched /\ IsErrorText(tc, t.result.result)
                   /\ t.outcome \in { "fault", "malformed" } =>
                         IsErrorText(tc, t.result.result)
                   /\ t.outcome = "timeout" => IsTimeoutText(tc, t.result.result)

\* execute_tool returned after the backend answered with empty content
C5_Witness ==
    /\ gpc = "returned"
    /\ Len(gbatch) = 1
    /\ tasks[1].outcome = "malformed"
    /\ gathered[1].result[1] = "Error executing tool"

\* the statement is a SELECT: its first word is SELECT, in either case
IsSelectStatement(q) ==
    SplitWords(q) # <<>> /\ Upper(SplitWords(q)[1]) = kwSELECT

\* the statement has a limit clause: LIMIT is one of its words
HasLimitClause(q) ==
    \E k \in 1..Len(SplitWords(q)) : Upper(SplitWords(q)[k]) = kwLIMIT

\* C6: a SELECT without a limit clause is dispatched with LIMIT 10 appended,
\* a statement with a limit clause and a statement that is no SELECT are
\* dispatched as they are
C6_LimitRewrite ==
    \A i \in 1..Len(tasks) :
        LET q == gbatch[i].query
        IN (gbatch[i].tool_name = "execute_read_query" /\ tasks[i].dispatched) =>
              tasks[i].call.args.query =
                  IF IsSelectStatement(q) /\ ~HasLimitClause(q)
                  THEN q \o LimitSuffix
                  ELSE q

RECURSIVE SplitAt(_, _)
SplitAt(s, c) ==
    IF \E i \in 1..Len(s) : s[i] = c
    THEN LET i == CHOOSE k \in 1..Len(s) : s[k] = c /\ \A j \in 1..(k - 1) : s[j] # c
         IN <<SubSeq(s, 1, i - 1)>> \o SplitAt(SubSeq(s, i + 1, Len(s)), c)
    ELSE <<s>>

WriteCommands == { <<"D", "R", "O", "P">> }

\* the statement is not a read: one of its ";"-separated parts begins with
\* a command that changes data
IsNonReadStatement(q) ==
    \E k \in 1..Len(SplitAt(q, ";")) :
        LET part == SplitWords(SplitAt(q, ";")[k])
        IN part # <<>> /\ Upper(part[1]) \in WriteCommands

\* C7: a statement that is not a read is never sent through the mysql
\* session, and its ToolResult carries an error text
C7_NonReadRejected ==
    \A i \in 1..Len(tasks) :
        (gbatch[i].tool_name = "execute_read_query"
           /\ IsNonReadStatement(gbatch[i].query)) =>
            /\ ~tasks[i].dispatched
            /\ tasks[i].pc = "done" => tasks[i].result.result # RowsText

\* the number of places of s where p stands
Occurrences(s, p) ==
    Cardinality({ i \in 1..(Len(s) - Len(p) + 1) : SubSeq(s, i, i + Len(p) - 1) = p })

\* the client appended the limit to the statement of call i
ClientRewrote(i) ==
    /\ gbatch[i].tool_name = "execute_read_query"
    /\ ClientLimitRewrite(gbatch[i].query) # gbatch[i].query

\* C29: the client's rewrite applied to its own output changes nothing; a
\* statement the client has rewritten is dispatched as the original with
\* one LIMIT 10 appended, the server does not rewrite it again, and the
\* statement executed on the database is the dispatched one, with the word
\* LIMIT in it once
C29_LimitRewriteIdempotent ==
    \A i \in 1..Len(tasks) :
        LET q == gbatch[i].query
        IN /\ ClientLimitRewrite(ClientLimitRewrite(q)) = ClientLimitRewrite(q)
           /\ ClientRewrote(i) =>
                 /\ ClientLimitRewrite(q) = q \o LimitSuffix
                 /\ ServerStatement(q \o LimitSuffix) = q \o LimitSuffix
                 /\ tasks[i].dispatched =>
                       /\ tasks[i].call.args.query = q \o LimitSuffix
                       /\ Occurrences(Upper(tasks[i].call.args.query), kwLIMIT) = 1
                 /\ (tasks[i].outcome = "ok" /\ Len(gbatch) = 1) =>
                       /\ Len(dbExecuted) <= 1
                       /\ \A k \in 1..Len(dbExecuted) :
                             /\ dbExecuted[k] = q \o LimitSuffix
                             /\ Occurrences(Upper(dbExecuted[k]), kwLIMIT) = 1
                 /\ tasks[i].outcome = "ok" =>
                       \A k \in 1..Len(dbExecuted) :
                           Occurrences(Upper(dbExecuted[k]), kwLIMIT) <= 1

\* a SELECT in lower case and without a limit was rewritten by the client
\* and executed by the server with one limit clause
C29_Witness ==
    /\ gpc = "returned"
    /\ Len(gbatch) = 1
    /\ ClientRewrote(1)
    /\ gbatch[1].query[1] = "s"
    /\ tasks[1].outcome = "ok"
    /\ dbExecuted = <<gbatch[1].query \o LimitSuffix>>
    /\ gathered[1].result = RowsText

----------------------------------------------------------------------------
(* The turn: process_query, regenerate_response, reset_chat *)

max_batches == 3
max_attempts == 3

\* str.startswith("Context:") on a message content
StartsWithContext(content) == content # <<>> /\ content[1] = "Context:"

\* outputs of the LLM stages (the oracles)
AnalysisOutputs ==
    { [ok |-> TRUE, is_in_scope |-> s, needs_retrieval |-> r] : s, r \in BOOLEAN }
      \cup { NoAnalysis }

PlannedBatch(n, c) ==
    [ok |-> TRUE, parsed |-> TRUE,
     tool_calls |-> [i \in 1..n |-> PoolCall(i)], should_continue |-> c]
PlannerNone ==
    [ok |-> TRUE, parsed |-> FALSE, tool_calls |-> <<>>, should_continue |-> FALSE]
PlannerFault ==
    [ok |-> FALSE, parsed |-> FALSE, tool_calls |-> <<>>, should_continue |-> FALSE]

PlannerOutputs ==
    { PlannedBatch(n, c) : n \in 0..MaxBatchSize, c \in BOOLEAN }
      \cup { PlannerNone, PlannerFault }

Answers == { <<"answer A">>, <<"answer B">> }
GeneratorOutputs ==
    { [ok |-> TRUE, text |-> a] : a \in Answers } \cup { [ok |-> FALSE, text |-> <<>>] }

\* feedback: None (absent), "" or a critique
Feedbacks ==
    { [present |-> FALSE, text |-> <<>>], [present |-> TRUE, text |-> <<>>],
      [present |-> TRUE, text |-> <<"critique">>] }
ValidatorOutputs ==
    { [ok |-> TRUE, is_appropriate |-> a, stays_in_scope |-> b,
       hallucination |-> h, feedback |-> f] :
          a, b, h \in BOOLEAN, f \in Feedbacks }
      \cup { NoVerdict }

\* faulty variant, to test that the properties tell it apart: a query that needs retrieval passes the gate
OutOfScopeUnlessRetrieval(a) == ~a.is_in_scope /\ ~a.needs_retrieval

\* line 447: the gate
OutOfScope(a) == ~a.is_in_scope

\* faulty variant, to test that the properties tell it apart: the ceiling is checked one batch late
CeilingReachedLate(count) == count > max_batches

\* faulty variant, to test that the properties tell it apart: None is not
\* taken as the end of the retrieval
NoToolCallsUnlessNone(p) == p.parsed /\ p.tool_calls = <<>>

\* line 336: not batch_tool_call or not batch_tool_call.tool_calls
NoToolCalls(p) == ~p.parsed \/ p.tool_calls = <<>>

\* faulty variant, to test that the properties tell it apart: the ceiling
\* is reached one batch early
CeilingReachedEarly(count) == count >= max_batches - 1

\* faulty variant, to test that the properties tell it apart: the
\* retrieval loop has no ceiling
CeilingNeverReached(count) == FALSE

\* line 339
CeilingReached(count) == count >= max_batches

\* faulty variant, to test that the properties tell it apart: one attempt more
MoreAttemptsOffByOne(att) == att <= max_attempts

\* line 467
MoreAttempts(att) == att < max_attempts

\* faulty variant, to test that the properties tell it apart: an empty
\* feedback text counts as feedback
TruthyWhenPresent(f) == f.present

\* truth value of validation.feedback
Truthy(f) == f.present /\ f.text # <<>>

\* faulty variant, to test that the properties tell it apart: retrieval
\* runs for every query in scope
NeedsRetrievalAlways(a) == TRUE

\* line 458
NeedsRetrieval(a) == a.needs_retrieval

\* faulty variant, to test that the properties tell it apart: the
\* hallucination flag is not looked at
PassesIgnoringHallucination(v) == v.is_appropriate /\ v.stays_in_scope

\* line 476
Passes(v) == v.is_appropriate /\ v.stays_in_scope /\ ~v.hallucination

\* str(result.model_dump()): the name, the arguments and the text of a result
ModelDump(r) ==
    <<"tool_name", r.tool_name, "tool_args">>
        \o (IF "table" \in DOMAIN r.tool_args THEN <<"table", r.tool_args.table>>
            ELSE <<>>)
        \o <<"query">> \o r.tool_args.query \o <<"result">> \o r.result

\* lines 360-368: the context parts of a tool-result list
RECURSIVE ContextParts(_)
ContextParts(results) ==
    IF results = <<>> THEN <<>>
    ELSE (IF Head(results).tool_name = "validation_feedback"
          THEN <<"Previous response:">> \o Head(results).tool_args.response
                  \o <<"Previous response feedback:">> \o Head(results).result
          ELSE ModelDump(Head(results))) \o ContextParts(Tail(results))

ContextContent(results) ==
    <<"Context:">> \o (IF ContextParts(results) = <<>> THEN <<"No data retrieved">>
                       ELSE ContextParts(results))

\* faulty variant, to test that the properties tell it apart: the cut is
\* one message early
RECURSIVE ScanBackCutsEarly(_, _, _)
ScanBackCutsEarly(h, i, q) ==
    IF h[i].role = "user" /\ ~StartsWithContext(h[i].content) /\ h[i].content = q
    THEN SubSeq(h, 1, i - 2)
    ELSE IF i = 1 THEN <<h[1]>> ELSE ScanBackCutsEarly(h, i - 1, q)

\* faulty variant, to test that the properties tell it apart: the cut is
\* made at the first message equal to the query, not at the last
ScanFromFront(h, i, q) ==
    LET ms == { k \in 1..Len(h) :
                  h[k].role = "user" /\ ~StartsWithContext(h[k].content)
                    /\ h[k].content = q }
    IN IF ms = {} THEN <<h[1]>>
       ELSE SubSeq(h, 1, (CHOOSE k \in ms : \A j \in ms : k <= j) - 1)

\* faulty variant, to test that the properties tell it apart: the cut is
\* made at the last user message, a Context message included
RECURSIVE ScanBackAnyUser(_, _, _)
ScanBackAnyUser(h, i, q) ==
    IF h[i].role = "user"
    THEN SubSeq(h, 1, i - 1)
    ELSE IF i = 1 THEN <<h[1]>> ELSE ScanBackAnyUser(h, i - 1, q)

\* lines 420-430: the history regenerate_response keeps
RECURSIVE ScanBack(_, _, _)
ScanBack(h, i, q) ==
    IF h[i].role = "user" /\ ~StartsWithContext(h[i].content) /\ h[i].content = q
    THEN SubSeq(h, 1, i - 1)
    ELSE IF i = 1 THEN <<h[1]>> ELSE ScanBack(h, i - 1, q)

\* faulty variant, to test that the properties tell it apart: the matched query itself is kept
TruncateKeepsQuery(h, q) ==
    IF Len(h) >= 2 /\ Len(ScanBack(h, Len(h), q)) < Len(h)
                  /\ h[Len(ScanBack(h, Len(h), q)) + 1].content = q
    THEN SubSeq(h, 1, Len(ScanBack(h, Len(h), q)) + 1)
    ELSE IF Len(h) >= 2 THEN ScanBack(h, Len(h), q) ELSE h

TruncateToBefore(h, q) == IF Len(h) >= 2 THEN ScanBack(h, Len(h), q) ELSE h

\* faulty variant, to test that the properties tell it apart: the entry
\* holds the critique without the rejected answer
FeedbackWithoutAnswer(resp, v) ==
    ToolResult("validation_feedback",
               [response |-> <<>>, feedback |-> v.feedback.text], v.feedback.text)

\* lines 484-488
FeedbackResult(resp, v) ==
    ToolResult("validation_feedback",
               [response |-> resp, feedback |-> v.feedback.text], v.feedback.text)

\* faulty variant, to test that the properties tell it apart: reset_chat puts the introduction after what is there
ResetAppends(h) == Append(h, IntroMessage)

\* line 59
ResetHistory(h) == <<IntroMessage>>

\* process_query up to its first await (lines 437-444)
BeginTurn(q, h, op, limit) ==
    /\ pc \in { "idle", "done", "failed" }
    /\ gpc = "idle"
    /\ turns < limit
    /\ preHistory' = message_history
    /\ message_history' = Append(h, Message("user", q))
    /\ pc' = "analyze"
    /\ query' = q
    /\ lastOp' = op
    /\ turns' = turns + 1
    /\ all_results' = <<>>
    /\ batch_count' = 0
    /\ batch_tool_call' = NoBatch
    /\ tool_results' = <<>>
    /\ attempt' = 0
    /\ response' = <<>>
    /\ ret' = <<>>
    /\ calls' = NoCalls
    /\ batchSizes' = <<>>
    /\ genLog' = <<>>
    /\ toolLog' = <<>>
    /\ planLog' = <<>>
    /\ lastVerdict' = NoVerdict
    /\ analysis' = NoAnalysis
    /\ answers' = <<>>
    /\ fault' = "none"
    /\ UNCHANGED sessions
    /\ UNCHANGED gatewayVars
    /\ UNCHANGED webVars

ProcessQuery(q, limit) == BeginTurn(q, message_history, "process_query", limit)

\* regenerate_response: truncate, then process_query (lines 417-433)
RegenerateResponse(q, limit) ==
    BeginTurn(q, TruncateToBefore(message_history, q), "regenerate_response", limit)

\* faulty variant, to test that the properties tell it apart: reset_chat
\* cancels the process_query calls that are suspended
ResetChatCancels ==
    /\ pc \in { "idle", "done", "failed" }
    /\ gpc = "idle"
    /\ message_history' = <<IntroMessage>>
    /\ ret' = IntroText
    /\ lastOp' = "reset_chat"
    /\ pc' = "idle"
    /\ preHistory' = message_history
    /\ query' = <<>>
    /\ all_results' = <<>>
    /\ batch_count' = 0
    /\ batch_tool_call' = NoBatch
    /\ tool_results' = <<>>
    /\ attempt' = 0
    /\ response' = <<>>
    /\ calls' = NoCalls
    /\ batchSizes' = <<>>
    /\ genLog' = <<>>
    /\ toolLog' = <<>>
    /\ planLog' = <<>>
    /\ lastVerdict' = NoVerdict
    /\ analysis' = NoAnalysis
    /\ answers' = <<>>
    /\ fault' = "none"
    /\ parked' = <<>>
    /\ UNCHANGED <<turns, sessions>>
    /\ UNCHANGED gatewayVars

\* reset_chat (lines 56-60)
ResetChat ==
    /\ pc \in { "idle", "done", "failed" }
    /\ gpc = "idle"
    /\ message_history' = ResetHistory(message_history)
    /\ ret' = IntroText
    /\ lastOp' = "reset_chat"
    /\ pc' = "idle"
    /\ preHistory' = message_history
    \* the locals of the finished process_query call are gone
    /\ query' = <<>>
    /\ all_results' = <<>>
    /\ batch_count' = 0
    /\ batch_tool_call' = NoBatch
    /\ tool_results' = <<>>
    /\ attempt' = 0
    /\ response' = <<>>
    /\ calls' = NoCalls
    /\ batchSizes' = <<>>
    /\ genLog' = <<>>
    /\ toolLog' = <<>>
    /\ planLog' = <<>>
    /\ lastVerdict' = NoVerdict
    /\ analysis' = NoAnalysis
    /\ answers' = <<>>
    /\ fault' = "none"
    /\ UNCHANGED <<turns, sessions>>
    /\ UNCHANGED gatewayVars
    /\ UNCHANGED webVars

\* faulty variant, to test that the properties tell it apart: the fault is
\* swallowed and the turn ends as if it had completed
AbortSwallowed(stage) ==
    /\ pc' = "done"
    /\ fault' = stage
    /\ ret' = <<>>

\* a stage call raised: the exception leaves process_query
Abort(stage) ==
    /\ pc' = "failed"
    /\ fault' = stage
    /\ ret' = <<"error">>

\* faulty variant, to test that the properties tell it apart: the
\* generator is called and the Context message is not appended
StartGenerateSilent(h, results) ==
    /\ message_history' = h
    /\ calls' = [calls EXCEPT !.generator = @ + 1]
    /\ genLog' = Append(genLog, results)
    /\ pc' = "generate"

\* generate_response up to its LLM call (lines 360-371)
StartGenerate(h, results) ==
    /\ message_history' = Append(h, Message("user", ContextContent(results)))
    /\ calls' = [calls EXCEPT !.generator = @ + 1]
    /\ genLog' = Append(genLog, results)
    /\ pc' = "generate"

\* retrieve_information returns all_results and the loop of attempts starts
\* (lines 352-353, 459, 465-470)
EndRetrieval(results) ==
    /\ tool_results' = results
    /\ StartGenerate(message_history, results)

\* faulty variant, to test that the properties tell it apart: the answer
\* is returned and not stored
FinishStoresNothing(resp) ==
    /\ message_history' = message_history
    /\ ret' = resp
    /\ pc' = "done"

\* faulty variant, to test that the properties tell it apart: the answer
\* is stored twice
FinishStoresTwice(resp) ==
    /\ message_history' = message_history
                             \o <<Message("assistant", resp), Message("assistant", resp)>>
    /\ ret' = resp
    /\ pc' = "done"

\* the final answer is stored and returned (lines 500-506)
Finish(resp) ==
    /\ message_history' = Append(message_history, Message("assistant", resp))
    /\ ret' = resp
    /\ pc' = "done"

\* retrieve_information calls decide_batch_tools(query, all_results) (line 335)
CallPlanner(results) ==
    /\ pc' = "plan"
    /\ calls' = [calls EXCEPT !.planner = @ + 1]
    /\ planLog' = Append(planLog, results)

\* faulty variant, to test that the properties tell it apart: the results
\* of a batch are put before the earlier ones
ExtendInFront(all, batch) == batch \o all

\* all_results.extend(batch_results) (line 344)
Extend(all, batch) == all \o batch

\* the value of batch_tool_call after line 335
PlannedValue(p) ==
    IF p.parsed
    THEN [parsed |-> TRUE, tool_calls |-> p.tool_calls,
          should_continue |-> p.should_continue]
    ELSE NoBatch

\* analyze_query returns (lines 444-459)
AnalysisReturns(a) ==
    /\ pc = "analyze"
    /\ analysis' = a
    /\ IF ~a.ok
       THEN /\ Abort("analysis")
            /\ UNCHANGED <<message_history, calls, genLog, tool_results, planLog>>
       ELSE IF OutOfScope(a)
       THEN /\ Finish(ApologyText)
            /\ UNCHANGED <<calls, genLog, tool_results, fault, planLog>>
       ELSE IF NeedsRetrieval(a)
       THEN /\ CallPlanner(<<>>)
            /\ UNCHANGED <<message_history, ret, genLog, tool_results, fault>>
       ELSE /\ EndRetrieval(<<>>)
            /\ UNCHANGED <<ret, fault, planLog>>
    /\ UNCHANGED <<query, all_results, batch_count, batch_tool_call, attempt,
                   response, lastOp, turns, preHistory, batchSizes, toolLog,
                   lastVerdict, answers, sessions>>
    /\ UNCHANGED gatewayVars
    /\ UNCHANGED webVars

\* decide_batch_tools returns (lines 335-343)
PlannerReturns(p) ==
    /\ pc = "plan"
    /\ IF ~p.ok
       THEN /\ Abort("planner")
            /\ UNCHANGED <<message_history, calls, genLog, tool_results,
                           batch_tool_call>>
       ELSE IF NoToolCalls(p) \/ CeilingReached(batch_count)
       THEN /\ batch_tool_call' = PlannedValue(p)
            /\ EndRetrieval(all_results)
            /\ UNCHANGED <<ret, fault>>
       ELSE /\ batch_tool_call' = PlannedValue(p)
            /\ pc' = "execute"
            /\ calls' = [calls EXCEPT !.tool = @ + Len(p.tool_calls)]
            /\ UNCHANGED <<message_history, ret, genLog, tool_results, fault>>
    /\ UNCHANGED <<query, analysis, all_results, batch_count, attempt, response,
                   lastOp, turns, preHistory, batchSizes, toolLog, planLog, lastVerdict,
                   answers, sessions>>
    /\ UNCHANGED gatewayVars
    /\ UNCHANGED webVars

\* execute_batch_tools returns (lines 343-350)
ToolsReturn(outs) ==
    /\ pc = "execute"
    /\ DOMAIN outs = 1..Len(batch_tool_call.tool_calls)
    /\ LET batch_results ==
               [i \in 1..Len(batch_tool_call.tool_calls) |->
                   execute_tool(batch_tool_call.tool_calls[i], sessions, outs[i]).value]
           extended == Extend(all_results, batch_results)
       IN /\ all_results' = extended
          /\ batch_count' = batch_count + 1
          /\ batchSizes' = Append(batchSizes, Len(batch_results))
          /\ toolLog' = toolLog \o
                [i \in 1..Len(batch_tool_call.tool_calls) |->
                    [call |-> batch_tool_call.tool_calls[i], outcome |-> outs[i],
                     more |-> batch_tool_call.should_continue]]
          /\ IF batch_tool_call.should_continue
             THEN /\ CallPlanner(extended)
                  /\ UNCHANGED <<message_history, genLog, tool_results>>
             ELSE EndRetrieval(extended) /\ UNCHANGED planLog
    /\ UNCHANGED <<query, analysis, batch_tool_call, attempt, response, ret,
                   lastOp, turns, preHistory, lastVerdict, answers, fault,
                   sessions>>
    /\ UNCHANGED gatewayVars
    /\ UNCHANGED webVars

\* the generator's LLM call returns (lines 371-386, 473)
GeneratorReturns(g) ==
    /\ pc = "generate"
    /\ IF ~g.ok
       THEN /\ Abort("generator")
            /\ UNCHANGED <<response, calls, answers>>
       ELSE /\ response' = g.text
            /\ answers' = Append(answers, g.text)
            /\ pc' = "validate"
            /\ calls' = [calls EXCEPT !.validator = @ + 1]
            /\ UNCHANGED <<ret, fault>>
    /\ UNCHANGED <<message_history, query, analysis, all_results, batch_count,
                   batch_tool_call, tool_results, attempt, lastOp, turns,
                   preHistory, batchSizes, genLog, toolLog, planLog, lastVerdict, sessions>>
    /\ UNCHANGED gatewayVars
    /\ UNCHANGED webVars

\* validate_response returns (lines 473-506)
ValidatorReturns(v) ==
    /\ pc = "validate"
    /\ lastVerdict' = v
    /\ IF ~v.ok
       THEN /\ Abort("validator")
            /\ UNCHANGED <<message_history, tool_results, attempt, calls, genLog>>
       ELSE IF Passes(v) \/ ~Truthy(v.feedback)
       THEN /\ Finish(response)
            /\ UNCHANGED <<tool_results, attempt, calls, genLog, fault>>
       ELSE LET extended == Append(tool_results, FeedbackResult(response, v))
            IN /\ tool_results' = extended
               /\ attempt' = attempt + 1
               /\ IF MoreAttempts(attempt + 1)
                  THEN /\ StartGenerate(message_history, extended)
                       /\ UNCHANGED <<ret, fault>>
                  ELSE /\ Finish(response)
                       /\ UNCHANGED <<calls, genLog, fault>>
    /\ UNCHANGED <<query, analysis, all_results, batch_count, batch_tool_call,
                   response, lastOp, turns, preHistory, batchSizes, toolLog, planLog, answers,
                   sessions>>
    /\ UNCHANGED gatewayVars
    /\ UNCHANGED webVars

Queries == { <<"query 1">>, <<"Context:", "query 2">> }

\* the backends' outcomes for a batch of n calls: all answer, or the last
\* call times out, or the first call faults
BatchOutcomes(n) ==
    { [i \in 1..n |-> "ok"],
      [i \in 1..n |-> IF i = n THEN "timeout" ELSE "ok"],
      [i \in 1..n |-> IF i = 1 THEN "fault" ELSE "ok"] }

\* an analysis that fails, finds the query out of scope, or asks for retrieval
FewAnalysisOutputs == { a \in AnalysisOutputs : a.is_in_scope => a.needs_retrieval }

\* a planner that plans one call, or fails
FewPlannerOutputs == { PlannerFault, PlannedBatch(1, FALSE) }

\* a generator with one answer, or failing
FewGeneratorOutputs ==
    { [ok |-> TRUE, text |-> <<"answer A">>], [ok |-> FALSE, text |-> <<>>] }

\* a validator that accepts, rejects with a critique, rejects without, or fails
FewValidatorOutputs ==
    { v \in ValidatorOutputs :
        \/ ~v.ok
        \/ v.is_appropriate /\ v.stays_in_scope /\ ~v.hallucination /\ ~v.feedback.present
        \/ /\ v.is_appropriate /\ v.stays_in_scope /\ v.hallucination
           /\ (~v.feedback.present \/ Truthy(v.feedback)) }

\* a validator that accepts, or fails
AcceptingValidatorOutputs == { v \in FewValidatorOutputs : ~v.ok \/ Passes(v) }

\* the steps of the turns of one client, connected to both servers, on the
\* given queries, under the given oracle outputs and at most limit turns
TurnNext(queries, analyses, planners, outcomes, generators, validators, limit) ==
    \/ Startup({ "rag", "mysql" })
    \/ \E q \in queries : ProcessQuery(q, limit)
    \/ \E q \in queries : RegenerateResponse(q, limit)
    \/ ResetChat
    \/ \E a \in analyses : AnalysisReturns(a)
    \/ \E p \in planners : PlannerReturns(p)
    \/ \E outs \in outcomes : ToolsReturn(outs)
    \/ \E g \in generators : GeneratorReturns(g)
    \/ \E v \in validators : ValidatorReturns(v)

AllBatchOutcomes == UNION { BatchOutcomes(n) : n \in 1..MaxBatchSize }

\* a conversation of several turns
Next ==
    TurnNext(Queries, FewAnalysisOutputs, FewPlannerOutputs, { <<"ok">> },
             FewGeneratorOutputs, FewValidatorOutputs, MaxTurns)

Spec == Init /\ [][Next]_vars

\* one turn on one query under every analysis, planner and backend behaviour
NextRetrieval ==
    TurnNext({ <<"query 1">> }, AnalysisOutputs, PlannerOutputs, AllBatchOutcomes,
             FewGeneratorOutputs, AcceptingValidatorOutputs, 1)

SpecRetrieval == Init /\ [][NextRetrieval]_vars

\* one turn under every analysis, generator and validator behaviour
NextAnswer ==
    TurnNext(Queries, AnalysisOutputs, FewPlannerOutputs \cup { PlannerNone },
             { <<"ok">> }, GeneratorOutputs, ValidatorOutputs, 1)

SpecAnswer == Init /\ [][NextAnswer]_vars

\* a planner that plans nothing or one call, with or without a further
\* round, returns None, or fails
SmallPlannerOutputs == { p \in PlannerOutputs : Len(p.tool_calls) <= 1 }

\* the call of a batch of one is answered, times out, or faults
SmallBatchOutcomes == BatchOutcomes(1)

\* one turn under every verdict of the validator and every course of the
\* retrieval loop
NextTermination ==
    TurnNext({ <<"query 1">> }, AnalysisOutputs, SmallPlannerOutputs,
             SmallBatchOutcomes, FewGeneratorOutputs, ValidatorOutputs, 1)

\* every awaited call comes back: the LLM calls return or raise, the tool
\* calls of a batch return, raise or run into their deadline (lines 244, 273)
StagesAnswer ==
    /\ WF_vars(\E a \in AnalysisOutputs : AnalysisReturns(a))
    /\ WF_vars(\E p \in SmallPlannerOutputs : PlannerReturns(p))
    /\ WF_vars(\E outs \in SmallBatchOutcomes : ToolsReturn(outs))
    /\ WF_vars(\E g \in FewGeneratorOutputs : GeneratorReturns(g))
    /\ WF_vars(\E v \in ValidatorOutputs : ValidatorReturns(v))

SpecTermination == Init /\ [][NextTermination]_vars /\ StagesAnswer

----------------------------------------------------------------------------
(* The web application: web/app.py serves every request on one MCPClient *)

\* a process_query call is suspended at one of its awaits
InFlight(p) == p \in { "analyze", "plan", "execute", "generate", "validate" }

\* the locals of the process_query call whose steps the turn variables show
CurrentLocals ==
    [pc |-> pc, query |-> query, analysis |-> analysis, all_results |-> all_results,
     batch_count |-> batch_count, batch_tool_call |-> batch_tool_call,
     tool_results |-> tool_results, attempt |-> attempt, response |-> response,
     ret |-> ret, lastOp |-> lastOp, preHistory |-> preHistory, calls |-> calls,
     batchSizes |-> batchSizes, genLog |-> genLog, toolLog |-> toolLog, planLog |-> planLog,
     lastVerdict |-> lastVerdict, answers |-> answers, fault |-> fault]

\* the event loop resumes the call with locals l
Load(l) ==
    /\ pc' = l.pc
    /\ query' = l.query
    /\ analysis' = l.analysis
    /\ all_results' = l.all_results
    /\ batch_count' = l.batch_count
    /\ batch_tool_call' = l.batch_tool_call
    /\ tool_results' = l.tool_results
    /\ attempt' = l.attempt
    /\ response' = l.response
    /\ ret' = l.ret
    /\ lastOp' = l.lastOp
    /\ preHistory' = l.preHistory
    /\ calls' = l.calls
    /\ batchSizes' = l.batchSizes
    /\ genLog' = l.genLog
    /\ toolLog' = l.toolLog
    /\ planLog' = l.planLog
    /\ lastVerdict' = l.lastVerdict
    /\ answers' = l.answers
    /\ fault' = l.fault

RemoveAt(seq, i) == SubSeq(seq, 1, i - 1) \o SubSeq(seq, i + 1, Len(seq))

\* the handlers chat, regenerate and reset_chat are coroutines of one event
\* loop and share the global client (app.py lines 23, 65, 85, 109) with no
\* lock: while a process_query call waits at an await, the event loop
\* serves a newly arrived request (i = 0) or resumes a suspended call (i > 0)
SwitchRequest(i) ==
    /\ pc # "new"
    /\ gpc = "idle"
    /\ IF i = 0
       THEN /\ InFlight(pc)
            /\ Len(parked) < MaxParked
            /\ parked' = Append(parked, CurrentLocals)
            /\ pc' = "idle"
            /\ UNCHANGED <<query, analysis, all_results, batch_count,
                           batch_tool_call, tool_results, attempt, response, ret,
                           lastOp, preHistory, calls, batchSizes, genLog, toolLog, planLog,
                           lastVerdict, answers, fault>>
       ELSE /\ i \in 1..Len(parked)
            /\ Load(parked[i])
            /\ parked' = IF InFlight(pc)
                         THEN Append(RemoveAt(parked, i), CurrentLocals)
                         ELSE RemoveAt(parked, i)
    /\ UNCHANGED <<message_history, sessions, turns>>
    /\ UNCHANGED gatewayVars

\* asyncio.timeout(120) around process_query / regenerate_response expires
\* (app.py lines 64, 108): the call is cancelled at the await it waits at
RequestTimeout ==
    /\ InFlight(pc)
    /\ pc' = "failed"
    /\ fault' = "deadline"
    /\ ret' = <<"The request took too long to process.">>
    /\ UNCHANGED <<message_history, query, analysis, all_results, batch_count,
                   batch_tool_call, tool_results, attempt, response, lastOp, turns,
                   preHistory, calls, batchSizes, genLog, toolLog, planLog, lastVerdict,
                   answers, sessions>>
    /\ UNCHANGED gatewayVars
    /\ UNCHANGED webVars

\* requests served concurrently on the shared client
NextWeb ==
    \/ TurnNext(Queries, FewAnalysisOutputs, FewPlannerOutputs, { <<"ok">> },
                FewGeneratorOutputs, FewValidatorOutputs, MaxRequests)
    \/ \E i \in 0..MaxParked : SwitchRequest(i)
    \/ RequestTimeout

SpecWeb == Init /\ [][NextWeb]_vars

\* one chat or regenerate request, and reset requests that arrive while it
\* is suspended at an await
NextReset ==
    \/ TurnNext(Queries, AnalysisOutputs, FewPlannerOutputs, { <<"ok">> },
                GeneratorOutputs, FewValidatorOutputs, 1)
    \/ \E i \in 0..MaxParked : SwitchRequest(i)

SpecReset == Init /\ [][NextReset]_vars

----------------------------------------------------------------------------
(* Claims about the turn *)

\* the history the turn started from: what process_query found, or what
\* regenerate_response kept
TurnBase ==
    IF lastOp = "regenerate_response" THEN TruncateToBefore(preHistory, query)
    ELSE preHistory

AnalysisReturned == pc \in { "plan", "execute", "generate", "validate", "done" }

\* C1: when the analysis says out of scope, whatever needs_retrieval is, the
\* turn is over with the apology returned, no planner, tool, generator or
\* validator call made, and the history longer by the user query and the
\* apology, in this order
C1_OutOfScopeApology ==
    (AnalysisReturned /\ analysis.ok /\ ~analysis.is_in_scope) =>
        /\ pc = "done"
        /\ ret = ApologyText
        /\ calls = NoCalls
        /\ message_history =
              TurnBase \o <<Message("user", query), Message("assistant", ApologyText)>>

\* an out-of-scope query that asked for retrieval, in a later turn
C1_Witness ==
    /\ pc = "done"
    /\ analysis.ok /\ ~analysis.is_in_scope /\ analysis.needs_retrieval
    /\ Len(TurnBase) > 1
    /\ ret = ApologyText

\* C2: a turn executes at most 3 batches, whatever the planner returns
C2_AtMostThreeBatches ==
    /\ batch_count <= 3
    /\ Len(batchSizes) <= 3
    /\ pc = "execute" => batch_count < 3

\* the planner planned a fourth batch after three had run
C2_Witness ==
    /\ batch_count = 3
    /\ calls.planner = 4
    /\ batch_tool_call.tool_calls # <<>>
    /\ batch_tool_call.should_continue
    /\ Len(batchSizes) = 3
    /\ pc = "generate"

\* C3: a turn executes at most 9 tool calls, whatever the planner returns
C3_AtMostNineToolCalls ==
    /\ Len(all_results) <= 9
    /\ pc = "execute" => Len(all_results) + Len(batch_tool_call.tool_calls) <= 9

\* C8: at most 3 answers are generated in a turn; when the validator has
\* given its verdict on the third one the turn is over with that answer
\* returned and stored, and a turn past the analysis fails only when a stage
\* call raised
C8_AtMostThreeAttempts ==
    /\ calls.generator <= 3
    /\ Len(answers) <= 3
    /\ (pc = "done" /\ analysis.is_in_scope) =>
          /\ answers # <<>>
          /\ ret = answers[Len(answers)]
          /\ message_history[Len(message_history)] = Message("assistant", ret)
    /\ (calls.validator = 3 /\ pc # "validate" /\ lastVerdict.ok) =>
          pc = "done" /\ ret = answers[3]
    /\ pc = "failed" => fault # "none"

\* the third answer was rejected with a critique and returned all the same
C8_Witness ==
    /\ pc = "done"
    /\ calls.generator = 3
    /\ lastVerdict.ok /\ ~Passes(lastVerdict) /\ Truthy(lastVerdict.feedback)
    /\ answers[3] # answers[2]
    /\ ret = answers[3]

\* C9: after reset_chat the history is the introduction message alone and
\* the introduction text is returned; a second reset_chat changes neither
C9_ResetRestoresIntro ==
    /\ [](lastOp = "reset_chat" =>
             message_history = <<IntroMessage>> /\ ret = IntroText)
    /\ [][(lastOp = "reset_chat" /\ lastOp' = "reset_chat") =>
             (message_history' = message_history /\ ret' = ret)]_vars

\* reset_chat ran on a history of several turns
C9_Witness ==
    /\ lastOp = "reset_chat"
    /\ Len(preHistory) > 4
    /\ message_history = <<IntroMessage>>

\* the number of messages after one processing of the query from a freshly
\* reset history, under the stage outputs of this turn: the introduction,
\* the query, one Context message per generator call, the answer
FreshCount == 3 + calls.generator

IsQueryMessage(m, q) ==
    m.role = "user" /\ ~StartsWithContext(m.content) /\ m.content = q

\* every query of the history was answered: no turn was cut short
AllAnswered(h) ==
    Cardinality({ i \in 1..Len(h) : h[i].role = "assistant" }) =
        1 + Cardinality({ i \in 1..Len(h) :
                            h[i].role = "user" /\ ~StartsWithContext(h[i].content) })

\* C10 as stated: after regenerate_response, called on a history of answered
\* queries, the history has as many messages as after one processing of the
\* query from a freshly reset history
C10_SameCountAsFresh ==
    (pc = "done" /\ lastOp = "regenerate_response" /\ AllAnswered(preHistory)) =>
        Len(message_history) = FreshCount

\* C10 amended: a finished processing from a reset history leaves FreshCount
\* messages, and so does regenerate_response when only the introduction
\* precedes the last user message equal to the query, or there is none
C10_SameCountWhenFirstQuery ==
    pc = "done" =>
        /\ (lastOp = "process_query" /\ preHistory = <<IntroMessage>>) =>
              Len(message_history) = FreshCount
        /\ (lastOp = "regenerate_response"
              /\ \A i \in 3..Len(preHistory) : ~IsQueryMessage(preHistory[i], query)) =>
              Len(message_history) = FreshCount

\* regenerate_response of the only query of the conversation, answered the
\* first time in one attempt and now in two
C10_Witness ==
    /\ pc = "done"
    /\ lastOp = "regenerate_response"
    /\ Len(preHistory) = 4
    /\ IsQueryMessage(preHistory[2], query)
    /\ calls.generator = 2
    /\ Len(message_history) = 5

----------------------------------------------------------------------------
(* Claims about the stages of a turn *)

\* the retrieval of the turn is over and generation has started
RetrievalOver ==
    analysis.ok /\ analysis.is_in_scope /\ pc \in { "generate", "validate", "done" }

\* the Context message of the first generation attempt of the turn
FirstContext == message_history[Len(TurnBase) + 2]

\* C11: a tool call that exceeds its deadline gives a ToolResult with the
\* timeout text of its tool; the calls that were answered have their own
\* result, no timeout or error text; no turn fails in the tool stage, and generation
\* starts with the timeout text in the generator's context
C11_TimeoutBecomesText ==
    /\ Len(toolLog) = Len(all_results)
    /\ \A k \in 1..Len(toolLog) :
          LET call == toolLog[k].call
          IN /\ (toolLog[k].outcome = "timeout" /\ KnownTool(call)) =>
                    /\ all_results[k].tool_name = call.tool_name
                    /\ IsTimeoutText(call, all_results[k].result)
             /\ (toolLog[k].outcome = "ok" /\ KnownTool(call)) =>
                    /\ all_results[k].tool_name = call.tool_name
                    /\ ~IsTimeoutText(call, all_results[k].result)
                    /\ ~IsErrorText(call, all_results[k].result)
    /\ pc = "failed" => fault \in { "analysis", "planner", "generator", "validator" }
    /\ (RetrievalOver /\ analysis.needs_retrieval) =>
          /\ genLog[1] = all_results
          /\ FirstContext = Message("user", ContextContent(all_results))
          /\ \A k \in 1..Len(toolLog) :
                (toolLog[k].outcome = "timeout" /\ KnownTool(toolLog[k].call)) =>
                    Contains(FirstContext.content, all_results[k].result)

\* a search call and a query call timed out in one turn, next to answered
\* calls, and the turn went on to its answer
C11_Witness ==
    /\ pc = "done"
    /\ \E k \in 1..Len(toolLog) :
          toolLog[k].outcome = "timeout" /\ toolLog[k].call.tool_name = "searchRAG"
    /\ \E k \in 1..Len(toolLog) :
          /\ toolLog[k].outcome = "timeout"
          /\ toolLog[k].call.tool_name = "execute_read_query"
    /\ \E k \in 1..Len(toolLog) :
          toolLog[k].outcome = "ok" /\ all_results[k].result = RowsText
    /\ answers # <<>>

\* C12: in every reachable state the history is not empty and its first
\* message is the assistant introduction
C12_HistoryStartsWithIntro ==
    /\ message_history # <<>>
    /\ message_history[1] = IntroMessage

\* a regenerate_response that cut a history of several turns, and whose
\* turn was then aborted by a stage fault
C12_Witness ==
    /\ lastOp = "regenerate_response"
    /\ pc = "failed"
    /\ Len(preHistory) > 4
    /\ Len(TurnBase) < Len(preHistory)
    /\ message_history[1] = IntroMessage

\* the number of assistant messages of a history
AssistantCount(h) == Cardinality({ i \in 1..Len(h) : h[i].role = "assistant" })

\* C13: a turn that has completed has appended one assistant message, the
\* last message of the history, whose content is the returned string: the
\* apology when out of scope, the most recently generated answer otherwise;
\* a turn that has not completed has appended none
C13_OneAnswerAppended ==
    /\ pc = "done" =>
          /\ AssistantCount(message_history) = AssistantCount(TurnBase) + 1
          /\ message_history[Len(message_history)] = Message("assistant", ret)
          /\ ret = IF OutOfScope(analysis) THEN ApologyText
                   ELSE answers[Len(answers)]
    /\ pc \in { "analyze", "plan", "execute", "generate", "validate", "failed" } =>
          AssistantCount(message_history) = AssistantCount(TurnBase)

\* a turn completed with its second answer, which differs from the first
C13_Witness ==
    /\ pc = "done"
    /\ Len(answers) = 2
    /\ answers[1] # answers[2]
    /\ ret = answers[2]
    /\ message_history[Len(message_history)].content = answers[2]

\* the order of the stage calls, as far as a state shows it
StagesInOrder ==
    /\ pc = "analyze" => calls = NoCalls
    /\ (calls.planner > 0 \/ calls.tool > 0) =>
          analysis.ok /\ analysis.is_in_scope /\ analysis.needs_retrieval
    /\ pc \in { "plan", "execute" } => calls.generator = 0 /\ calls.validator = 0
    /\ calls.generator > 0 => analysis.ok /\ analysis.is_in_scope
    /\ calls.validator <= calls.generator
    /\ calls.generator <= calls.validator + 1
    /\ pc = "generate" => calls.generator = calls.validator + 1
    /\ pc = "validate" =>
          calls.validator = calls.generator /\ Len(answers) = calls.generator
    /\ (calls.generator > 0 /\ ~analysis.needs_retrieval) =>
          genLog[1] = <<>> /\ calls.planner = 0 /\ calls.tool = 0

\* C14: the stages of a turn run in the order analysis, retrieval,
\* generation and validation: planner and tool calls only after an analysis
\* that is in scope and needs retrieval, none of them once generation has
\* started, a validator call only after the generator call of its attempt,
\* and generation from an empty result list when no retrieval is needed
C14_StagesInOrder ==
    /\ []StagesInOrder
    /\ [][(calls.generator > 0 /\ turns' = turns /\ lastOp' = lastOp) =>
             (calls'.planner = calls.planner /\ calls'.tool = calls.tool)]_vars

\* a turn with a retrieval of one batch and two attempts
C14_Witness ==
    /\ pc = "done"
    /\ calls.planner = 1
    /\ calls.tool = 1
    /\ calls.generator = 2
    /\ calls.validator = 2
    /\ Len(genLog[1]) = 1

\* what a state shows of a turn in which a stage call raised
FaultAborts ==
    /\ fault # "none" => pc = "failed" /\ ret = <<"error">>
    /\ pc = "failed" =>
          /\ fault \in { "analysis", "planner", "generator", "validator" }
          /\ AssistantCount(message_history) = AssistantCount(TurnBase)
          /\ message_history[Len(message_history)].role = "user"
    /\ fault = "analysis" => calls = NoCalls
    /\ fault = "generator" => calls.validator = calls.generator - 1
    /\ fault = "validator" => calls.generator = calls.validator

\* C15: a fault of the analysis, generation or validation call aborts the
\* turn: the error reaches the caller, no assistant message is appended,
\* and as long as no new operation is started no stage is called again and
\* the history stays as it is
C15_StageFaultAborts ==
    /\ []FaultAborts
    /\ [][(pc = "failed" /\ turns' = turns /\ lastOp' = lastOp) =>
             /\ pc' = "failed"
             /\ calls' = calls
             /\ message_history' = message_history]_vars

\* the validation of a second attempt raised
C15_Witness ==
    /\ pc = "failed"
    /\ fault = "validator"
    /\ calls.generator = 2
    /\ calls.validator = 2
    /\ Len(answers) = 2
    /\ ret = <<"error">>

----------------------------------------------------------------------------
(* Claims about the web application (SpecWeb) *)

\* the turns in flight: the one the turn variables show and the suspended ones
InFlightCount ==
    (IF InFlight(pc) THEN 1 ELSE 0)
      + Cardinality({ i \in 1..Len(parked) : InFlight(parked[i].pc) })

\* C16: requests served on the shared client are turns one after the other:
\* at most one turn is in flight, and a completed turn has left, after the
\* history it started from, its query, its Context messages and its answer
\* with no message of another request among them
C16_TurnsNotInterleaved ==
    /\ InFlightCount <= 1
    /\ (pc = "done" /\ lastOp \in { "process_query", "regenerate_response" }) =>
          /\ Len(message_history) = Len(TurnBase) + 2 + calls.generator
          /\ SubSeq(message_history, 1, Len(TurnBase)) = TurnBase
          /\ message_history[Len(TurnBase) + 1] = Message("user", query)
          /\ message_history[Len(message_history)] = Message("assistant", ret)

----------------------------------------------------------------------------
(* Claims about the retrieval loop (SpecRetrieval) *)

\* the last planner call of the turn raised
PlannerRaised == fault = "planner"

\* the last planner call of the turn returned None: a structured response
\* with no parsed value
PlannerReturnedNone ==
    calls.planner > 0 /\ ~batch_tool_call.parsed /\ pc # "plan" /\ ~PlannerRaised

\* C17 as stated: a planner call that raises or returns no parsed value
\* aborts the turn, with no generation and no assistant answer
C17_PlannerFailureAborts ==
    (PlannerRaised \/ PlannerReturnedNone) =>
        /\ pc = "failed"
        /\ calls.generator = 0
        /\ AssistantCount(message_history) = AssistantCount(TurnBase)

\* C17 amended: a planner call that raises aborts the turn, with no further
\* planner call, no generation and no assistant answer; a planner call that
\* returns None ends the retrieval as an empty plan does, and generation
\* starts from the results gathered so far
C17_PlannerFaultAborts ==
    /\ PlannerRaised =>
          /\ pc = "failed"
          /\ ret = <<"error">>
          /\ calls.planner = Len(batchSizes) + 1
          /\ calls.generator = 0
          /\ AssistantCount(message_history) = AssistantCount(TurnBase)
    /\ PlannerReturnedNone =>
          /\ pc \in { "generate", "validate", "done", "failed" }
          /\ pc = "failed" => fault \in { "generator", "validator" }
          /\ calls.planner = Len(batchSizes) + 1
          /\ calls.generator >= 1
          /\ genLog[1] = all_results

\* the planner raised in the second round, after a batch had run
C17_Witness ==
    /\ PlannerRaised
    /\ pc = "failed"
    /\ calls.planner = 2
    /\ Len(batchSizes) = 1
    /\ all_results # <<>>

\* the plan the planner returned last was executed as the last batch
LastPlanExecuted ==
    /\ batchSizes # <<>>
    /\ batchSizes[Len(batchSizes)] = Len(batch_tool_call.tool_calls)
    /\ Len(toolLog) >= Len(batch_tool_call.tool_calls)
    /\ \A i \in 1..Len(batch_tool_call.tool_calls) :
          toolLog[Len(toolLog) - Len(batch_tool_call.tool_calls) + i].call =
              batch_tool_call.tool_calls[i]

\* C18: the retrieval loop ends at the first of an empty plan (nothing is
\* executed for it), an executed batch whose should_continue is false (no
\* planner call after it) and 3 executed batches; a planning round follows
\* only otherwise, and a planned batch that is not empty is executed while
\* fewer than 3 batches have been executed
C18_LoopEndsAtFirstStop ==
    /\ pc = "plan" =>
          /\ batch_count < 3
          /\ batch_count > 0 => batch_tool_call.should_continue
          /\ calls.planner = batch_count + 1
    /\ pc = "execute" =>
          /\ batch_count < 3
          /\ batch_tool_call.tool_calls # <<>>
          /\ calls.planner = batch_count + 1
    /\ (RetrievalOver /\ analysis.needs_retrieval) =>
          /\ batch_count = Len(batchSizes)
          /\ \/ batch_tool_call.tool_calls = <<>> /\ calls.planner = batch_count + 1
             \/ /\ LastPlanExecuted
                /\ calls.planner = batch_count
                /\ ~batch_tool_call.should_continue \/ batch_count = 3

\* the retrieval of the turn has ended: retrieve_information returned, or a
\* planner call raised
RetrievalEnded == (RetrievalOver /\ analysis.needs_retrieval) \/ fault = "planner"

\* the batch executed last said that no further round is needed
LastBatchWasFinal == toolLog # <<>> /\ ~toolLog[Len(toolLog)].more

\* C27: a turn calls the planner at most 4 times; when its retrieval has
\* ended the planner was called once more than batches were executed, or
\* exactly as often when the batch executed last had should_continue =
\* false; a plan with tool calls is left unexecuted only when 3 batches
\* have executed, and then none of its calls is executed
C27_PlannerCallCount ==
    /\ calls.planner <= 4
    /\ calls.planner <= batch_count + 1
    /\ RetrievalEnded =>
          calls.planner = IF LastBatchWasFinal THEN batch_count ELSE batch_count + 1
    /\ (RetrievalEnded /\ fault # "planner" /\ batch_tool_call.tool_calls # <<>>
          /\ calls.planner = batch_count + 1) =>
          /\ batch_count = 3
          /\ calls.planner = 4
    /\ calls.planner = 4 =>
          /\ batch_count = 3
          /\ Len(batchSizes) = 3
          /\ pc # "execute"
          /\ calls.tool = Len(toolLog)
          /\ Len(all_results) = batchSizes[1] + batchSizes[2] + batchSizes[3]

\* after three batches the planner planned a fourth one, of another size
\* than the third, and none of its calls was executed
C27_Witness ==
    /\ RetrievalOver
    /\ calls.planner = 4
    /\ batch_count = 3
    /\ Len(batch_tool_call.tool_calls) > batchSizes[3]
    /\ Len(toolLog) = batchSizes[1] + batchSizes[2] + batchSizes[3]
    /\ calls.tool = Len(toolLog)

\* the arguments execute_tool puts into the result of a call
ArgsOf(call) ==
    IF call.tool_name = "searchRAG" THEN RagArgs(call)
    ELSE IF call.tool_name = "execute_read_query" THEN MysqlArgs(call)
    ELSE FallbackArgs(call)

RECURSIVE SumFirst(_, _)
SumFirst(sizes, k) == IF k = 0 THEN 0 ELSE SumFirst(sizes, k - 1) + sizes[k]

\* C19: all_results holds one result per executed call, in the order of the
\* batches and, within a batch, of its calls; the planner call of round k
\* was given the results of the batches 1..k-1; and the list handed to the
\* generation is all_results
C19_ResultsAccumulateInOrder ==
    /\ Len(all_results) = Len(toolLog)
    /\ Len(batchSizes) = batch_count
    /\ Len(all_results) = SumFirst(batchSizes, Len(batchSizes))
    /\ \A k \in 1..Len(toolLog) :
          LET call == toolLog[k].call
          IN /\ all_results[k].tool_name = call.tool_name
             /\ all_results[k].tool_args = ArgsOf(call)
             /\ KnownTool(call) =>
                   /\ IsTimeoutText(call, all_results[k].result)
                         <=> toolLog[k].outcome = "timeout"
                   /\ IsErrorText(call, all_results[k].result)
                         <=> toolLog[k].outcome \in { "fault", "malformed" }
    /\ Len(planLog) = calls.planner
    /\ \A k \in 1..Len(planLog) :
          /\ k - 1 <= Len(batchSizes)
          /\ planLog[k] = SubSeq(all_results, 1, SumFirst(batchSizes, k - 1))
    /\ (RetrievalOver /\ analysis.needs_retrieval) =>
          /\ genLog[1] = all_results
          /\ SubSeq(tool_results, 1, Len(all_results)) = all_results

\* three batches of different sizes have run, with a timeout and a fault
\* among the calls, and generation has started
C19_Witness ==
    /\ pc = "generate"
    /\ Len(batchSizes) = 3
    /\ batchSizes[1] # batchSizes[2]
    /\ batchSizes[2] # batchSizes[3]
    /\ batchSizes[1] > 1
    /\ \E k \in 1..Len(toolLog) : toolLog[k].outcome = "timeout"
    /\ \E k \in 1..Len(toolLog) : toolLog[k].outcome = "fault"
    /\ Len(planLog) >= 3
    /\ genLog[1] = all_results

----------------------------------------------------------------------------
(* Claims about the attempts (SpecAnswer) *)

\* entry e is the validation_feedback entry of the rejected answer a
IsFeedbackOf(e, a) ==
    /\ e.tool_name = "validation_feedback"
    /\ e.tool_args.response = a
    /\ e.tool_args.feedback = e.result
    /\ e.result # <<>>

\* the last verdict rejected the answer and carries a critique
RejectedWithFeedback ==
    lastVerdict.ok /\ ~Passes(lastVerdict) /\ Truthy(lastVerdict.feedback)

\* C20: the tool-result list of the turn is the real results, as retrieval
\* returned them, followed by one validation_feedback entry per attempt
\* rejected with a critique, each holding the rejected answer and the
\* critique; the generator of attempt k was given the real results and the
\* first k-1 of these entries; an attempt that passed added none
C20_FeedbackAppended ==
    /\ \A k \in 1..Len(all_results) : all_results[k].tool_name # "validation_feedback"
    /\ calls.generator > 0 =>
          /\ Len(tool_results) = Len(all_results) + attempt
          /\ SubSeq(tool_results, 1, Len(all_results)) = all_results
          /\ \A j \in 1..attempt :
                IsFeedbackOf(tool_results[Len(all_results) + j], answers[j])
          /\ Len(genLog) = calls.generator
          /\ \A k \in 1..Len(genLog) :
                genLog[k] = SubSeq(tool_results, 1, Len(all_results) + k - 1)
    /\ (pc \in { "generate", "done" } /\ lastVerdict.ok) =>
          /\ attempt = IF RejectedWithFeedback THEN calls.validator
                       ELSE calls.validator - 1
          /\ RejectedWithFeedback =>
                tool_results[Len(tool_results)].result = lastVerdict.feedback.text

\* the third attempt starts from one real result and two critiques of two
\* different answers
C20_Witness ==
    /\ pc = "generate"
    /\ calls.generator = 3
    /\ Len(all_results) = 1
    /\ Len(genLog[3]) = 3
    /\ genLog[3][1] = all_results[1]
    /\ answers[1] # answers[2]
    /\ IsFeedbackOf(genLog[3][3], answers[2])

\* the last verdict rejected the answer and carries no feedback
RejectedWithoutFeedback ==
    /\ lastVerdict.ok
    /\ ~(lastVerdict.is_appropriate /\ lastVerdict.stays_in_scope
           /\ ~lastVerdict.hallucination)
    /\ ~lastVerdict.feedback.present \/ lastVerdict.feedback.text = <<>>

\* C21: when the validator rejects an attempt and gives no feedback (None or
\* the empty text), the turn is over in that step: the answer of the attempt
\* is stored as the last message and returned, no feedback entry is added, the attempt counter
\* stays, and no generator or validator call follows
C21_NoFeedbackStops ==
    /\ [](RejectedWithoutFeedback =>
             /\ pc = "done"
             /\ ret = answers[Len(answers)]
             /\ ret = response
             /\ message_history[Len(message_history)] = Message("assistant", ret)
             /\ calls.generator = Len(answers)
             /\ calls.validator = Len(answers)
             /\ attempt = Len(answers) - 1
             /\ Len(tool_results) = Len(all_results) + attempt)
    /\ [][(RejectedWithoutFeedback /\ turns' = turns /\ lastOp' = lastOp) =>
             (calls' = calls /\ message_history' = message_history /\ pc' = "done")]_vars
    /\ [][(pc = "validate" /\ RejectedWithoutFeedback') =>
             /\ calls' = calls
             /\ message_history' =
                   Append(message_history, Message("assistant", response))]_vars

\* the second attempt was rejected with an empty feedback text and its
\* answer returned
C21_Witness ==
    /\ pc = "done"
    /\ RejectedWithoutFeedback
    /\ lastVerdict.feedback.present
    /\ calls.generator = 2
    /\ answers[1] # answers[2]
    /\ ret = answers[2]

\* the three flags of the last verdict are favourable
AllFavourable ==
    /\ lastVerdict.ok
    /\ lastVerdict.is_appropriate = TRUE
    /\ lastVerdict.stays_in_scope = TRUE
    /\ lastVerdict.hallucination = FALSE

\* C22: a verdict whose three flags are favourable ends the turn with the
\* answer of that attempt returned and stored, whatever its feedback; a
\* verdict with a flag that is not favourable does not count as a pass (the
\* turn ends on it only without feedback or on the third attempt); and a
\* generator call after the first is made only in the step in which a
\* verdict that did not pass arrives
C22_PassEndsLoop ==
    /\ [](AllFavourable =>
             /\ pc = "done"
             /\ ret = answers[Len(answers)]
             /\ message_history[Len(message_history)] = Message("assistant", ret)
             /\ calls.generator = Len(answers)
             /\ calls.validator = Len(answers)
             /\ attempt = Len(answers) - 1)
    /\ []((pc = "done" /\ lastVerdict.ok /\ ~AllFavourable) =>
             \/ ~lastVerdict.feedback.present
             \/ lastVerdict.feedback.text = <<>>
             \/ calls.generator = max_attempts)
    /\ []((pc = "generate" /\ calls.generator > 1) =>
             lastVerdict.ok /\ ~AllFavourable)
    /\ [][(calls.generator >= 1 /\ turns' = turns /\ calls'.generator > calls.generator) =>
             /\ pc = "validate"
             /\ lastVerdict'.ok /\ ~AllFavourable'
             /\ calls'.generator = calls.generator + 1]_vars

\* the first answer was rejected with a critique, the second passed although
\* its verdict carries a critique too
C22_Witness ==
    /\ pc = "done"
    /\ AllFavourable
    /\ lastVerdict.feedback.text # <<>>
    /\ calls.generator = 2
    /\ Len(tool_results) = Len(all_results) + 1
    /\ ret = answers[2]

----------------------------------------------------------------------------
(* Claims about the history of a turn *)

\* m is a Context message: a user message whose content begins with "Context:"
IsContextMessage(m) ==
    m.role = "user" /\ m.content # <<>> /\ m.content[1] = "Context:"

\* the history is the one the turn started from, the user query and one
\* Context message per generator call, followed by the given last messages
TurnHistoryIs(last) ==
    /\ Len(message_history) = Len(TurnBase) + 1 + calls.generator + Len(last)
    /\ SubSeq(message_history, 1, Len(TurnBase)) = TurnBase
    /\ message_history[Len(TurnBase) + 1] = Message("user", query)
    /\ \A j \in 1..calls.generator :
          /\ IsContextMessage(message_history[Len(TurnBase) + 1 + j])
          /\ message_history[Len(TurnBase) + 1 + j].content = ContextContent(genLog[j])
    /\ SubSeq(message_history, Len(TurnBase) + 2 + calls.generator,
              Len(message_history)) = last

\* C23: every generator call appends one Context message, which is in the
\* history while the LLM call is pending; a completed in-scope turn of k
\* attempts, 1 <= k <= 3, has put after the history it started from the user
\* query, k Context messages and the assistant answer, k + 2 messages
C23_ContextPerAttempt ==
    /\ [](pc \in { "generate", "validate" } => TurnHistoryIs(<<>>))
    /\ [](pc = "generate" =>
             IsContextMessage(message_history[Len(message_history)]))
    /\ []((pc = "done" /\ analysis.ok /\ analysis.is_in_scope) =>
             /\ calls.generator \in 1..3
             /\ TurnHistoryIs(<<Message("assistant", ret)>>)
             /\ Len(message_history) = Len(TurnBase) + calls.generator + 2)
    /\ [][(turns' = turns /\ calls'.generator # calls.generator /\ pc' = "generate") =>
             /\ calls'.generator = calls.generator + 1
             /\ Len(message_history') = Len(message_history) + 1
             /\ SubSeq(message_history', 1, Len(message_history)) = message_history
             /\ IsContextMessage(message_history'[Len(message_history')])]_vars

\* a later turn of the conversation completed with three attempts
C23_Witness ==
    /\ pc = "done"
    /\ analysis.ok /\ analysis.is_in_scope
    /\ Len(TurnBase) > 1
    /\ calls.generator = 3
    /\ Len(message_history) = Len(TurnBase) + 5
    /\ message_history[Len(message_history) - 1].content # message_history[Len(message_history) - 2].content

\* the positions of the user messages of h whose content is q and does not
\* begin with "Context:"
QueryPositions(h, q) ==
    { i \in 1..Len(h) :
        h[i].role = "user" /\ h[i].content = q
          /\ ~(h[i].content # <<>> /\ h[i].content[1] = "Context:") }

\* the history without the last such message and everything after it, or
\* the introduction alone when there is none
CutAtLastQuery(h, q) ==
    IF QueryPositions(h, q) = {} THEN <<IntroMessage>>
    ELSE SubSeq(h, 1, (CHOOSE i \in QueryPositions(h, q) :
                          \A j \in QueryPositions(h, q) : j <= i) - 1)

\* C24: regenerate_response(Q) reprocesses Q on the history cut before the
\* last user message equal to Q that does not begin with "Context:", every
\* earlier message unchanged, and on the introduction alone when there is
\* no such message
C24_RegenerateTruncates ==
    /\ []((lastOp = "regenerate_response" /\ pc = "analyze") =>
             message_history =
                 Append(CutAtLastQuery(preHistory, query), Message("user", query)))
    /\ []((lastOp = "regenerate_response" /\ pc # "idle") =>
             /\ Len(message_history) > Len(CutAtLastQuery(preHistory, query))
             /\ SubSeq(message_history, 1, Len(CutAtLastQuery(preHistory, query)))
                   = CutAtLastQuery(preHistory, query))
    /\ [][(lastOp' = "regenerate_response" /\ turns' = turns + 1) =>
             message_history' =
                 Append(CutAtLastQuery(message_history, query'),
                        Message("user", query'))]_vars

\* the query was asked twice and is regenerated: the cut is at the second
\* asking, and the first one and its answer are kept
C24_Witness ==
    /\ lastOp = "regenerate_response"
    /\ pc = "analyze"
    /\ Cardinality(QueryPositions(preHistory, query)) = 2
    /\ Len(CutAtLastQuery(preHistory, query)) >= 4
    /\ Len(message_history) < Len(preHistory)

----------------------------------------------------------------------------
(* Claims about termination (SpecTermination) *)

\* C25: provided every awaited call comes back, a turn that has started
\* ends, with an answer returned or an error raised, after at most 4
\* planner calls, 3 batches, 3 generator calls and 3 validator calls,
\* whatever the planner and the validator return
C25_TurnTerminates ==
    /\ [](/\ calls.planner <= max_batches + 1
          /\ batch_count <= max_batches
          /\ Len(batchSizes) <= max_batches
          /\ calls.generator <= max_attempts
          /\ calls.validator <= max_attempts)
    /\ [](pc \in { "analyze", "plan", "execute", "generate", "validate" }
             => <>(pc \in { "done", "failed" }))

\* the longest turn: four planner calls, three batches, three attempts
C25_Witness ==
    /\ pc = "done"
    /\ calls.planner = 4
    /\ Len(batchSizes) = 3
    /\ calls.generator = 3
    /\ calls.validator = 3
    /\ ret = answers[3]

\* the step belongs to the turn in progress: no operation is started in it
SameTurn == turns' = turns /\ lastOp' = lastOp

\* C26: the analysis call, the planner calls, the tool execution and the
\* validator call leave the history as it is: while they are pending, and
\* when one of them has raised, the history is the one the turn started
\* from plus the user query and the Context messages of the attempts made;
\* a step of a turn changes the history only by appending one Context
\* message together with a generator call, or the one assistant message
\* that ends the turn; and the step that starts a turn appends the query
C26_StagesLeaveHistory ==
    /\ []((pc \in { "analyze", "plan", "execute" }
             \/ (pc = "failed" /\ fault \in { "analysis", "planner" })) =>
             /\ calls.generator = 0
             /\ message_history = Append(TurnBase, Message("user", query)))
    /\ []((pc = "validate" \/ (pc = "failed" /\ fault = "validator")) =>
             /\ Len(message_history) = Len(TurnBase) + 1 + calls.generator
             /\ message_history[Len(message_history)].role = "user")
    /\ [][SameTurn =>
             \/ message_history' = message_history
             \/ /\ pc' = "generate"
                /\ calls'.generator = calls.generator + 1
                /\ Len(message_history') = Len(message_history) + 1
                /\ SubSeq(message_history', 1, Len(message_history)) = message_history
                /\ message_history'[Len(message_history')].role = "user"
                /\ message_history'[Len(message_history')].content[1] = "Context:"
             \/ /\ pc' = "done"
                /\ message_history' = Append(message_history, Message("assistant", ret'))]_vars
    /\ [][(SameTurn /\ pc' \in { "plan", "execute", "validate", "failed" }) =>
             message_history' = message_history]_vars
    /\ [][(turns' = turns + 1) =>
             /\ message_history'[Len(message_history')] = Message("user", query')
             /\ pc' = "analyze"]_vars

\* a later turn went through analysis, a planner call, a tool call and two
\* validations and has stored its answer
C26_Witness ==
    /\ pc = "done"
    /\ turns > 1
    /\ calls.planner = 1
    /\ calls.tool = 1
    /\ calls.validator = 2
    /\ Len(message_history) = Len(TurnBase) + 4
    /\ message_history[Len(TurnBase) + 1] = Message("user", query)

\* what an aborted turn has left in the history: the history it started
\* from, the user query and one Context message per generator call, and no
\* assistant message
AbortLeavesMessages ==
    pc = "failed" =>
        /\ Len(message_history) = Len(TurnBase) + 1 + calls.generator
        /\ SubSeq(message_history, 1, Len(TurnBase)) = TurnBase
        /\ message_history[Len(TurnBase) + 1] = Message("user", query)
        /\ \A j \in 1..calls.generator :
              /\ message_history[Len(TurnBase) + 1 + j].role = "user"
              /\ message_history[Len(TurnBase) + 1 + j].content[1] = "Context:"
        /\ \A i \in (Len(TurnBase) + 1)..Len(message_history) :
              message_history[i].role # "assistant"

\* the step is a regenerate_response of the query of the aborted turn
RegenerateAfterAbort ==
    /\ pc = "failed"
    /\ lastOp' = "regenerate_response"
    /\ turns' = turns + 1
    /\ query' = query

\* C28 as stated: an aborted turn leaves its query and its Context messages
\* and no assistant message, and a regenerate_response of the same query
\* reprocesses it on the history the aborted turn started from
C28_LeftoversRemoved ==
    /\ []AbortLeavesMessages
    /\ [][RegenerateAfterAbort =>
             message_history' = Append(TurnBase, Message("user", query'))]_vars

\* C28 amended: the same, for a query that does not begin with "Context:";
\* for a query that does, regenerate_response keeps the introduction alone
C28_LeftoversRemovedUnlessContextQuery ==
    /\ []AbortLeavesMessages
    /\ [][RegenerateAfterAbort =>
             message_history' =
                 IF query # <<>> /\ query[1] = "Context:"
                 THEN <<IntroMessage, Message("user", query')>>
                 ELSE Append(TurnBase, Message("user", query'))]_vars

\* a turn of a later query was aborted after its generator call had started
\* and the query is regenerated: the query and the Context message are gone
\* and the earlier turn is kept
C28_Witness ==
    /\ lastOp = "regenerate_response"
    /\ pc = "analyze"
    /\ preHistory[Len(preHistory)].role = "user"
    /\ preHistory[Len(preHistory)].content[1] = "Context:"
    /\ query[1] # "Context:"
    /\ Len(message_history) > 2
    /\ Len(preHistory) > Len(message_history)
    /\ preHistory[Len(message_history)] = Message("user", query)

----------------------------------------------------------------------------
(* Claims about a reset during a turn (SpecReset) *)

\* the Context messages of the last j generator calls of the turn
LastContexts(j) ==
    [k \in 1..j |->
        Message("user", ContextContent(genLog[calls.generator - j + k]))]

\* the history holds the user query of the turn
HoldsQuery == \E i \in 1..Len(message_history) : message_history[i] = Message("user", query)

\* the turn shown by the turn variables has started and is not aborted
TurnRunning == pc \in { "analyze", "plan", "execute", "generate", "validate", "done" }

\* the step is a reset_chat
ResetStep == lastOp' = "reset_chat" /\ pc' = "idle" /\ ret' = IntroText

\* C30: a reset_chat served while a turn is suspended leaves the suspended
\* call as it is and makes the history the introduction alone; the turn
\* goes on and its appends go to the history it finds: the history of a
\* turn is the introduction followed either by the query and all Context
\* messages of the turn, or, after a reset, by the Context messages
\* appended since, without the query, and by the answer when it is done
C30_ResetDuringTurn ==
    /\ [](message_history[1] = IntroMessage)
    /\ [][ResetStep => (parked' = parked /\ message_history' = <<IntroMessage>>)]_vars
    /\ [](TurnRunning =>
             LET last == IF pc = "done" THEN <<Message("assistant", ret)>> ELSE <<>>
             IN \/ message_history =
                      <<IntroMessage, Message("user", query)>>
                          \o LastContexts(calls.generator) \o last
                \/ /\ ~HoldsQuery
                   /\ \E j \in 0..calls.generator :
                         message_history = <<IntroMessage>> \o LastContexts(j) \o last)
    /\ [][(TurnRunning' /\ pc # "idle" /\ lastOp' = lastOp /\ turns' = turns
             /\ parked' = parked) =>
             \/ message_history' = message_history
             \/ /\ pc' = "generate"
                /\ message_history' =
                      Append(message_history,
                             Message("user", ContextContent(genLog'[calls'.generator])))
             \/ /\ pc' = "done"
                /\ message_history' = Append(message_history, Message("assistant", ret'))]_vars

\* the history was reset while the first generator call of the turn was
\* pending; the turn went on to a second attempt and completed
C30_Witness ==
    /\ pc = "done"
    /\ lastOp = "process_query"
    /\ calls.generator = 2
    /\ ~HoldsQuery
    /\ message_history =
          <<IntroMessage, Message("user", ContextContent(genLog[2])),
            Message("assistant", answers[2])>>

====
